---- MODULE Spec2Model ----
(***************************************************************************)
(* Model of the two scripts of the repository.                             *)
(*                                                                         *)
(*   bonkbot.py      a Telegram bot whose /trade command fetches the       *)
(*                   Dexscreener pairs and runs parse_coin_data over them  *)
(*   trading_bot.py  SuperTradingBot: api_request (bounded retry),         *)
(*                   process_token and the polling loop run                *)
(*                                                                         *)
(* The two scripts are separate programs; `program` says which one was     *)
(* launched.  Amounts are in milli-SOL (0.025 SOL = 25), probabilities in  *)
(* percent (0.7 = 70).  A value that float() cannot parse is carried as    *)
(* an *_ok flag set to FALSE.                                              *)
(***************************************************************************)
EXTENDS Integers, Sequences, FiniteSets, TLC

(* ------------------------------ bounds --------------------------------- *)
MaxMarkets == 2
MaxRanked == 6
NumCategories == 2

(* ------------------------ bonkbot.py constants ------------------------- *)
MIN_BUY_AMOUNT == 25
MAX_BUY_AMOUNT == 100
BundleRatio == 10
min_volume == 1000
TELEGRAM_CHAT_ID == "chat_owner"
COIN_BLACKLIST == {"SCAM", "CA_BAD"}

Chats == {"chat_owner", "chat_other"}
Symbols == {"SCAM", "BONK"}
Addresses == {"CA_1", "CA_BAD"}
Prices == {10, 60, 500}
Volumes == {10, 1000}
Supplies == {0, 1, 1000}
Liquidities == {10, 11, 50}

\* One entry of data["pairs"].  price_ok = FALSE: float() of priceUsd or of
\* volume.h24 raises.  supply_ok = FALSE: float() of the supply or of the
\* liquidity raises inside check_bundled_supply.  An absent supply reads 0.
Markets ==
    { m \in [symbol : Symbols, address : Addresses, price : Prices,
             price_ok : BOOLEAN, volume : Volumes, supply : Supplies,
             supply_ok : BOOLEAN, liquidity : Liquidities] :
        /\ (~m.price_ok => m.price = 10 /\ m.volume = 10)
        /\ (~m.supply_ok => m.supply = 0 /\ m.liquidity = 10) }

NoMarket ==
    [symbol |-> "BONK", address |-> "CA_1", price |-> 10, price_ok |-> TRUE,
     volume |-> 10, supply |-> 0, supply_ok |-> TRUE, liquidity |-> 10]

\* What the RugCheck request of check_rugcheck yields: "fail" is any
\* exception (transport error, non-2xx, bad JSON), "none" a body without a
\* status, the others the value of the status field.
RugResponses == {"fail", "none", "Good", "GOOD", "Bad"}

\* Outcome of fetch_coin_data as manual_trade sees it.
FetchOutcomes == {"fail", "empty", "pairs_null", "pairs"}

(* ---------------------- trading_bot.py constants ----------------------- *)
max_retries == 3
retry_delay == 5
TopN == 5
Threshold == 70
DirectAmount == 100
RankedAmount == 50
MinHistory == 5
LoopSleep == 10
ErrorSleep == 60

\* What the operator types at the prompt; "eof" is input() raising EOFError.
InputLines == {"exit", " EXIT ", "", "tokA", "eof"}

\* How a toxisolbot_trade / toxisolbot_alert call ends.
DispatchOutcomes == {"ok", "failed"}
\* A top_holders_count and a trading_volume_24h a metrics body can carry.
HoldersSample == 7
VolumeSample == 30

Statuses == {"GOOD", "good", "BAD", "absent"}
Histories ==
    { <<>>, <<4, 4, 4, 5>>, <<4, 4, 4, 4, 5>>, <<10, 5, 5, 5, 5, 5>>,
      <<0, 1, 1, 1, 1>>, <<0, 0, 0, 0, 0, 0>> }
Probs == {50, 70, 90}

\* A value returned by api_request.  kind: "None" (all retries failed),
\* "empty" (a falsy JSON body), "list" (a JSON array, which has no .get),
\* "ok" (a JSON object).  status/score_ok are the fields of a safety report
\* (score_ok = FALSE: float() of risk_score raises), history the
\* price_history of the metrics, rows the count the body carries: the
\* length of a listing's "data", the top_holders_count of the metrics;
\* volume the trading_volume_24h of the metrics.
Payload(k, st, ok, h, n) ==
    [kind |-> k, status |-> st, score_ok |-> ok, history |-> h, rows |-> n,
     volume |-> 0]
\* A metrics body: either without the two counts or with both.
MetricsBody(h, full) ==
    [Payload("ok", "absent", TRUE, h, IF full THEN HoldersSample ELSE 0)
        EXCEPT !.volume = IF full THEN VolumeSample ELSE 0]
NonePayload == Payload("None", "absent", TRUE, <<>>, 0)
NoPayload == Payload("unset", "absent", TRUE, <<>>, 0)
Odd == { Payload(k, "absent", TRUE, <<>>, 0) : k \in {"empty", "list"} }
Responses(c) ==
    IF c = "rugcheck"
    THEN Odd \cup { Payload("ok", st, ok, <<>>, 0) :
                       st \in Statuses, ok \in BOOLEAN }
    ELSE IF c = "metrics"
    THEN Odd \cup { MetricsBody(h, full) : h \in Histories, full \in BOOLEAN }
    ELSE IF c = "history"
    THEN Odd \cup { Payload("ok", "absent", TRUE, <<>>, 0) }
    ELSE Odd \cup { Payload("ok", "absent", TRUE, <<>>, n) : n \in 0..1 }

\* The lists predict_and_rank can return: success probabilities in
\* descending order; the entry at position i is token i of the list.
RECURSIVE Descending(_)
Descending(s) ==
    IF Len(s) < 2 THEN TRUE
    ELSE s[1] >= s[2] /\ Descending(Tail(s))
RankedLists ==
    UNION { { s \in [1..k -> Probs] : Descending(s) } : k \in 0..MaxRanked }

Min(a, b) == IF a < b THEN a ELSE b
Max(a, b) == IF a > b THEN a ELSE b

VARIABLES
    program,    \* which script runs: "bonkbot" or "trading_bot"
    bpc,        \* bonkbot: "idle" or "parse" (inside parse_coin_data)
    n_pairs,    \* bonkbot: len(data["pairs"]) of the batch being parsed
    idx,        \* bonkbot: number of markets of the batch already handled
    market,     \* bonkbot: the market handled last
    rug,        \* bonkbot: RugCheck response for it, "not_called" if none
    verdicts,   \* bonkbot: how each handled market of the batch ended
    msgs,       \* bonkbot: send_telegram_message calls of the batch
    reply,      \* bonkbot: reply to the command handled last, "none" if none
    pc,         \* trading_bot: position in run
    cat,        \* number of categories fetched in this cycle
    call,       \* which api_request is running or has just returned
    attempt,    \* api_request: the loop variable
    attempts,   \* api_request: requests issued by the current call
    failures,   \* api_request: how many of them raised RequestException
    delays,     \* api_request: time.sleep(retry_delay) calls of the call
    result,     \* api_request: the value returned by the last call
    waited,     \* api_request: time slept by the current call
    token_address,  \* process_token: its argument
    rug_report, \* process_token: rugcheck_data
    metrics,    \* process_token: gmgn_metrics
    hist,       \* process_token: historical_data
    price_trend,    \* process_token: the computed trend
    pt_out,     \* process_token: how the last call ended
    pt_err,     \* process_token: the exception its except clause caught
    persisted,  \* process_token: the INSERT OR REPLACE was executed
    top_holders,    \* process_token: the holder count taken from the metrics
    trading_volume, \* process_token: the volume taken from the metrics
    dispatch_fail,  \* process_token: which of its trade/alert calls failed
    saved,      \* rows handed to save_gmgn_data / save_historical_data
    trades,     \* toxisolbot_trade calls of this cycle
    alerts,     \* toxisolbot_alert calls of this cycle
    ranked,     \* run: ranked_tokens
    ri,         \* run: entries of ranked_tokens[:5] already examined
    nap,        \* run: length of the sleep that ends the cycle
    loop_err,   \* run: the except clause of the main loop was entered
    exported,   \* export_to_csv was called
    line        \* run: the line read at the prompt, stripped

bonkVars == <<bpc, n_pairs, idx, market, rug, verdicts, msgs, reply>>
apiVars == <<call, attempt, attempts, failures, delays, result, waited>>
ptVars == <<token_address, rug_report, metrics, hist, price_trend, pt_out,
            pt_err, persisted, top_holders, trading_volume, dispatch_fail>>
runVars == <<pc, cat, saved, trades, alerts, ranked, ri, nap, loop_err,
             exported, line>>
botVars == <<apiVars, ptVars, runVars>>
vars == <<program, bonkVars, botVars>>

(* ------------------------------ bonkbot.py ----------------------------- *)

\* variant: any answered request counts as safe
check_rugcheck_AnyAnswer(r) == r # "fail"

check_rugcheck(r) == r = "Good"

\* variant: the ratio test with the opposite sense
check_bundled_supply_Inverted(m) ==
    IF ~m.supply_ok THEN TRUE
    ELSE ~(m.supply > 0 /\ m.liquidity > BundleRatio * m.supply)

check_bundled_supply(m) ==
    IF ~m.supply_ok THEN TRUE
    ELSE m.supply > 0 /\ m.liquidity > BundleRatio * m.supply

\* variant: the upper bound is not applied
buy_amount_NoCap(price) == Max(MIN_BUY_AMOUNT, price)

buy_amount(price) == Max(MIN_BUY_AMOUNT, Min(MAX_BUY_AMOUNT, price))

\* variant: the blacklist is looked up by contract address
BlacklistHit_ByAddress(m) == m.address \in COIN_BLACKLIST

BlacklistHit(m) == m.symbol \in COIN_BLACKLIST

\* The body of the for loop of parse_coin_data for one market, as the name
\* of the branch that ends it.
MarketVerdict(m, r) ==
    IF ~m.price_ok THEN "ERROR"
    ELSE IF BlacklistHit(m) THEN "BLACKLIST"
    ELSE IF m.volume < min_volume THEN "MIN_VOLUME"
    ELSE IF ~check_rugcheck(r) THEN "RUGCHECK"
    ELSE IF check_bundled_supply(m) THEN "BUNDLED"
    ELSE "BUY"

\* variant: the safety request is made before the volume test
RugCalled_BeforeVolume(m) == m.price_ok /\ ~BlacklistHit(m)

\* check_rugcheck is called only when the blacklist and volume tests passed.
RugCalled(m) == m.price_ok /\ ~BlacklistHit(m) /\ m.volume >= min_volume

\* variant: an exception ends the whole batch
NextMarket_AbortOnError(v, i, n) == IF v = "ERROR" THEN n ELSE i + 1

\* Index of the next market after one ended with verdict v: both `continue`
\* and the except clause go on with the next element of the list.
NextMarket(v, i, n) == i + 1

Init ==
    /\ program \in {"bonkbot", "trading_bot"}
    /\ bpc = "idle"
    /\ n_pairs = 0
    /\ idx = 0
    /\ market = NoMarket
    /\ rug = "not_called"
    /\ verdicts = <<>>
    /\ msgs = <<>>
    /\ reply = "none"
    /\ pc = "cycle"
    /\ cat = 0
    /\ call = "none"
    /\ attempt = 0
    /\ attempts = 0
    /\ failures = 0
    /\ delays = 0
    /\ result = NoPayload
    /\ token_address = ""
    /\ rug_report = NoPayload
    /\ metrics = NoPayload
    /\ hist = NoPayload
    /\ price_trend = 0
    /\ pt_out = "not_run"
    /\ pt_err = "none"
    /\ persisted = FALSE
    /\ saved = 0
    /\ trades = <<>>
    /\ alerts = <<>>
    /\ ranked = <<>>
    /\ ri = 0
    /\ nap = 0
    /\ loop_err = FALSE
    /\ exported = FALSE
    /\ waited = 0
    /\ top_holders = 0
    /\ trading_volume = 0
    /\ dispatch_fail = {}
    /\ line = ""

\* /start
Start(chat) ==
    /\ program = "bonkbot"
    /\ bpc = "idle"
    /\ reply' = IF chat = TELEGRAM_CHAT_ID THEN "Bot is running!" ELSE "none"
    /\ UNCHANGED <<program, bpc, n_pairs, idx, market, rug, verdicts, msgs>>
    /\ UNCHANGED botVars

\* /trade up to the call of parse_coin_data
ManualTrade(chat, fetched, n) ==
    /\ program = "bonkbot"
    /\ bpc = "idle"
    /\ IF chat # TELEGRAM_CHAT_ID
       THEN /\ reply' = "none"
            /\ UNCHANGED <<bpc, n_pairs, idx, market, rug, verdicts, msgs>>
       ELSE IF fetched \in {"fail", "empty"}
       THEN /\ reply' = "Failed to fetch data."
            /\ UNCHANGED <<bpc, n_pairs, idx, market, rug, verdicts, msgs>>
       ELSE IF fetched = "pairs_null"
       THEN \* iterating None raises TypeError out of the handler
            /\ reply' = "none"
            /\ UNCHANGED <<bpc, n_pairs, idx, market, rug, verdicts, msgs>>
       ELSE /\ bpc' = "parse"
            /\ n_pairs' = n
            /\ idx' = 0
            /\ market' = NoMarket
            /\ rug' = "not_called"
            /\ verdicts' = <<>>
            /\ msgs' = <<>>
            /\ reply' = "none"
    /\ UNCHANGED <<program, botVars>>

\* one iteration of the for loop of parse_coin_data
ParseMarket(m, r, delivered) ==
    /\ program = "bonkbot"
    /\ bpc = "parse"
    /\ idx < n_pairs
    /\ LET v == MarketVerdict(m, r) IN
        /\ market' = m
        /\ rug' = IF RugCalled(m) THEN r ELSE "not_called"
        /\ verdicts' = Append(verdicts, v)
        /\ msgs' = IF v = "BUY"
                   THEN Append(msgs, [symbol |-> m.symbol,
                                      amount |-> buy_amount(m.price),
                                      delivered |-> delivered])
                   ELSE msgs
        /\ idx' = NextMarket(v, idx, n_pairs)
    /\ UNCHANGED <<program, bpc, n_pairs, reply>>
    /\ UNCHANGED botVars

\* the for loop is over: manual_trade replies
ParseDone ==
    /\ program = "bonkbot"
    /\ bpc = "parse"
    /\ idx >= n_pairs
    /\ bpc' = "idle"
    /\ reply' = "Manual trade triggered."
    /\ UNCHANGED <<program, n_pairs, idx, market, rug, verdicts, msgs>>
    /\ UNCHANGED botVars

NextBonk ==
    \/ \E chat \in Chats : Start(chat)
    \/ \E chat \in Chats, f \in FetchOutcomes, n \in 0..MaxMarkets :
          ManualTrade(chat, f, n)
    \/ \E m \in Markets :
          \E r \in (IF RugCalled(m) THEN RugResponses ELSE {"not_called"}) :
             \E d \in (IF MarketVerdict(m, r) = "BUY"
                        THEN BOOLEAN ELSE {FALSE}) :
                ParseMarket(m, r, d)
    \/ ParseDone

(* ---------------------------- trading_bot.py --------------------------- *)

\* save_gmgn_data, save_historical_data, toxisolbot_trade, toxisolbot_alert,
\* predict_and_rank and export_to_csv are called by the class but their
\* bodies are not in trading_bot.py.  They are taken as the collaborators of
\* the specification's section 6: a call is recorded where the code makes it
\* and returns to its caller (fire-and-forget), and predict_and_rank returns
\* a list in descending order of probability.

\* variant: None is not told apart from an answer
Truthy_NoneToo(p) == p.kind \in {"None", "list", "ok"}

\* bool(x) of a value returned by api_request
Truthy(p) == p.kind \in {"list", "ok"}

\* str.strip and str.lower on the lines the operator can type
Strip(typed) == IF typed = " EXIT " THEN "EXIT" ELSE typed
Lower(typed) == IF typed = "EXIT" THEN "exit" ELSE typed

\* rugcheck_data.get("status", "UNKNOWN").upper()
Upper(st) == IF st \in {"good", "Good", "GOOD"} THEN "GOOD" ELSE st
StatusOf(p) == Upper(IF p.status = "absent" THEN "UNKNOWN" ELSE p.status)

\* variant: one retry fewer
RetryAfter_Short(a) == a < max_retries - 2

\* variant: sleeps after every failed attempt, the last one too
RetryAfter_Always(a) == TRUE

\* api_request: the except clause sleeps and goes round again when
\* attempt < max_retries - 1, and returns None otherwise
RetryAfter(a) == a < max_retries - 1

\* gmgn_metrics.get("price_history", []) if gmgn_metrics else []
price_history(m) == IF Truthy(m) THEN m.history ELSE <<>>

\* variant: a missing metrics body counts one holder
holders_of_DefaultOne(m) == IF Truthy(m) THEN m.rows ELSE 1

\* gmgn_metrics.get("top_holders_count", 0) if gmgn_metrics else 0
holders_of(m) == IF Truthy(m) THEN m.rows ELSE 0

\* gmgn_metrics.get("trading_volume_24h", 0.0) if gmgn_metrics else 0.0
volume_of(m) == IF Truthy(m) THEN m.volume ELSE 0

\* variant: a failed call raises into its caller
Propagates_Failure(outcome) == outcome = "failed"

\* Whether a failed toxisolbot_trade / toxisolbot_alert call raises into its
\* caller.  The specification makes both fire-and-forget: a failure is
\* logged by the callee and nothing propagates.
Propagates(outcome) == FALSE

\* The division of the price_trend expression raises ZeroDivisionError
\* when it is evaluated with price_data[0] = 0.
TrendRaises(price_data) ==
    Len(price_data) >= MinHistory /\ price_data[1] = 0

\* variant: four samples are enough
Trend_FourSamples(price_data) ==
    IF Len(price_data) >= MinHistory - 1
    THEN ((price_data[Len(price_data)] - price_data[1]) * 100)
            \div price_data[1]
    ELSE 0

\* (price_data[-1] - price_data[0]) / price_data[0] * 100, else 0.0; the
\* histories used make the quotient exact
Trend(price_data) ==
    IF Len(price_data) >= MinHistory
    THEN ((price_data[Len(price_data)] - price_data[1]) * 100)
            \div price_data[1]
    ELSE 0

\* variant: the threshold itself counts
HighConfidence_Inclusive(prob) == prob >= Threshold

\* run: token["success_probability"] > 0.7
HighConfidence(prob) == prob > Threshold

\* variant: the whole list is walked
TopSlice_All(list) == Len(list)

\* run: the slice ranked_tokens[:5]
TopSlice(list) == Min(TopN, Len(list))

\* variant: every trade is made with the full amount
Trade_FullAmount(ctx, pos, amount) ==
    [ctx |-> ctx, pos |-> pos, amount |-> DirectAmount]

Trade(ctx, pos, amount) == [ctx |-> ctx, pos |-> pos, amount |-> amount]
Alert(ctx, pos) == [ctx |-> ctx, pos |-> pos]

\* entry of api_request
StartCall(c) ==
    /\ call' = c
    /\ attempt' = 0
    /\ attempts' = 0
    /\ failures' = 0
    /\ delays' = 0
    /\ result' = NoPayload
    /\ waited' = 0
    /\ pc' = "api"

\* process_token returns (normally, or through its except clause)
EndProcess(out, err) ==
    /\ pt_out' = out
    /\ pt_err' = err
    /\ pc' = "rank"

\* variant: the except clause leaves the loop
LoopError_Fatal ==
    /\ loop_err' = TRUE
    /\ nap' = ErrorSleep
    /\ pc' = "stopped"

\* the except clause of the main loop of run
LoopError ==
    /\ loop_err' = TRUE
    /\ nap' = ErrorSleep
    /\ pc' = "sleep"

\* api_request: one attempt that returns response.json()
ApiSuccess(p) ==
    /\ program = "trading_bot"
    /\ pc = "api"
    /\ p \in Responses(call)
    /\ attempts' = attempts + 1
    /\ result' = p
    /\ pc' = "ret"
    /\ UNCHANGED <<program, bonkVars, ptVars, call, attempt, failures, delays,
                   waited>>
    /\ UNCHANGED <<cat, saved, trades, alerts, ranked, ri, nap, loop_err,
                   exported, line>>

\* api_request: one attempt that raises requests.RequestException
ApiFailure ==
    /\ program = "trading_bot"
    /\ pc = "api"
    /\ attempts' = attempts + 1
    /\ failures' = failures + 1
    /\ IF RetryAfter(attempt)
       THEN /\ delays' = delays + 1
            /\ waited' = waited + retry_delay
            /\ attempt' = attempt + 1
            /\ IF attempt + 1 < max_retries
               THEN pc' = "api" /\ UNCHANGED result
               ELSE pc' = "ret" /\ result' = NonePayload
       ELSE /\ result' = NonePayload
            /\ pc' = "ret"
            /\ UNCHANGED <<delays, waited, attempt>>
    /\ UNCHANGED <<program, bonkVars, ptVars, call>>
    /\ UNCHANGED <<cat, saved, trades, alerts, ranked, ri, nap, loop_err,
                   exported, line>>

\* run: fetch_gmgn_data(category) for the next category
FetchCategory ==
    /\ program = "trading_bot"
    /\ pc = "cycle"
    /\ cat < NumCategories
    /\ StartCall("gmgn_cat")
    /\ UNCHANGED <<program, bonkVars, ptVars>>
    /\ UNCHANGED <<cat, saved, trades, alerts, ranked, ri, nap, loop_err,
                   exported, line>>

\* run: rest of fetch_gmgn_data and save_gmgn_data
GmgnReturned ==
    /\ program = "trading_bot"
    /\ pc = "ret"
    /\ call = "gmgn_cat"
    /\ IF result.kind = "list"
       THEN LoopError /\ UNCHANGED <<cat, saved>>
       ELSE /\ saved' = IF Truthy(result) /\ result.rows > 0
                        THEN saved + result.rows ELSE saved
            /\ cat' = cat + 1
            /\ pc' = "cycle"
            /\ UNCHANGED <<nap, loop_err>>
    /\ UNCHANGED <<program, bonkVars, apiVars, ptVars>>
    /\ UNCHANGED <<trades, alerts, ranked, ri, exported, line>>

\* run: the prompt, and the entry of process_token
Input(typed) ==
    /\ program = "trading_bot"
    /\ pc = "cycle"
    /\ cat >= NumCategories
    /\ IF typed = "eof"
       THEN LoopError /\ UNCHANGED <<apiVars, ptVars, line>>
       ELSE IF Lower(Strip(typed)) = "exit"
       THEN /\ line' = Strip(typed)
            /\ pc' = "export"
            /\ UNCHANGED <<apiVars, ptVars, nap, loop_err>>
       ELSE IF Strip(typed) = ""
       THEN /\ line' = Strip(typed)
            /\ pc' = "rank"
            /\ UNCHANGED <<apiVars, ptVars, nap, loop_err>>
       ELSE /\ line' = Strip(typed)
            /\ token_address' = Strip(typed)
            /\ top_holders' = 0
            /\ trading_volume' = 0
            /\ dispatch_fail' = {}
            /\ rug_report' = NoPayload
            /\ metrics' = NoPayload
            /\ hist' = NoPayload
            /\ price_trend' = 0
            /\ pt_out' = "running"
            /\ pt_err' = "none"
            /\ persisted' = FALSE
            /\ StartCall("rugcheck")
            /\ UNCHANGED <<nap, loop_err>>
    /\ UNCHANGED <<program, bonkVars>>
    /\ UNCHANGED <<cat, saved, trades, alerts, ranked, ri, exported>>

\* process_token: from the safety report to the metrics request
RugReturned ==
    /\ program = "trading_bot"
    /\ pc = "ret"
    /\ call = "rugcheck"
    /\ rug_report' = result
    /\ IF ~Truthy(result)
       THEN EndProcess("no_report", "none") /\ UNCHANGED apiVars
       ELSE IF result.kind = "list"
       THEN EndProcess("error", "AttributeError") /\ UNCHANGED apiVars
       ELSE IF ~result.score_ok
       THEN EndProcess("error", "ValueError") /\ UNCHANGED apiVars
       ELSE StartCall("metrics") /\ UNCHANGED <<pt_out, pt_err>>
    /\ UNCHANGED <<program, bonkVars>>
    /\ UNCHANGED <<token_address, metrics, hist, price_trend, persisted,
                   top_holders, trading_volume, dispatch_fail>>
    /\ UNCHANGED <<cat, saved, trades, alerts, ranked, ri, nap, loop_err,
                   exported, line>>

\* process_token: from the metrics to the history request
MetricsReturned ==
    /\ program = "trading_bot"
    /\ pc = "ret"
    /\ call = "metrics"
    /\ metrics' = result
    /\ IF result.kind = "list"
       THEN /\ EndProcess("error", "AttributeError")
            /\ UNCHANGED <<apiVars, price_trend, top_holders, trading_volume>>
       ELSE IF TrendRaises(price_history(result))
       THEN /\ top_holders' = holders_of(result)
            /\ trading_volume' = volume_of(result)
            /\ EndProcess("error", "ZeroDivisionError")
            /\ UNCHANGED <<apiVars, price_trend>>
       ELSE /\ top_holders' = holders_of(result)
            /\ trading_volume' = volume_of(result)
            /\ price_trend' = Trend(price_history(result))
            /\ StartCall("history")
            /\ UNCHANGED <<pt_out, pt_err>>
    /\ UNCHANGED <<program, bonkVars>>
    /\ UNCHANGED <<token_address, rug_report, hist, persisted, dispatch_fail>>
    /\ UNCHANGED <<cat, saved, trades, alerts, ranked, ri, nap, loop_err,
                   exported, line>>

\* process_token: from the history to the end
HistoryReturned(to, ao) ==
    /\ program = "trading_bot"
    /\ pc = "ret"
    /\ call = "history"
    /\ hist' = result
    /\ IF result.kind = "list"
       THEN /\ EndProcess("error", "AttributeError")
            /\ UNCHANGED <<persisted, trades, alerts, dispatch_fail>>
       ELSE IF StatusOf(rug_report) = "GOOD"
       THEN /\ persisted' = TRUE
            /\ trades' = Append(trades, Trade("direct", 0, DirectAmount))
            /\ IF Propagates(to)
               THEN /\ dispatch_fail' = {"trade"}
                    /\ EndProcess("error", "DispatchError")
                    /\ UNCHANGED alerts
               ELSE /\ alerts' = Append(alerts, Alert("direct", 0))
                    /\ dispatch_fail' =
                          { c \in {"trade"} : to = "failed" }
                          \cup { c \in {"alert"} : ao = "failed" }
                    /\ IF Propagates(ao)
                       THEN EndProcess("error", "DispatchError")
                       ELSE EndProcess("traded", "none")
       ELSE /\ EndProcess("skipped", "none")
            /\ UNCHANGED <<persisted, trades, alerts, dispatch_fail>>
    /\ UNCHANGED <<program, bonkVars, apiVars>>
    /\ UNCHANGED <<token_address, rug_report, metrics, price_trend,
                   top_holders, trading_volume>>
    /\ UNCHANGED <<cat, saved, ranked, ri, nap, loop_err, exported, line>>

\* run: predict_and_rank
Rank(list) ==
    /\ program = "trading_bot"
    /\ pc = "rank"
    /\ ranked' = list
    /\ ri' = 0
    /\ IF Len(list) > 0
       THEN pc' = "top" /\ UNCHANGED nap
       ELSE pc' = "sleep" /\ nap' = LoopSleep
    /\ token_address' = ""
    /\ rug_report' = NoPayload
    /\ metrics' = NoPayload
    /\ hist' = NoPayload
    /\ price_trend' = 0
    /\ pt_out' = "not_run"
    /\ pt_err' = "none"
    /\ persisted' = FALSE
    /\ top_holders' = 0
    /\ trading_volume' = 0
    /\ dispatch_fail' = {}
    /\ line' = ""
    /\ UNCHANGED <<program, bonkVars, apiVars>>
    /\ UNCHANGED <<cat, saved, trades, alerts, loop_err, exported>>

\* run: predict_and_rank() raises; the except clause of the loop takes it
RankFails ==
    /\ program = "trading_bot"
    /\ pc = "rank"
    /\ LoopError
    /\ UNCHANGED <<program, bonkVars, apiVars, ptVars>>
    /\ UNCHANGED <<cat, saved, trades, alerts, ranked, ri, exported, line>>

\* run: one iteration of the loop over ranked_tokens[:5]
TopStep(to, ao) ==
    /\ program = "trading_bot"
    /\ pc = "top"
    /\ ri < TopSlice(ranked)
    /\ IF HighConfidence(ranked[ri + 1])
       THEN /\ trades' = Append(trades, Trade("ranked", ri + 1, RankedAmount))
            /\ alerts' = IF Propagates(to) THEN alerts
                         ELSE Append(alerts, Alert("ranked", ri + 1))
            /\ IF Propagates(to) \/ Propagates(ao)
               THEN LoopError /\ UNCHANGED ri
               ELSE ri' = ri + 1 /\ UNCHANGED <<pc, nap, loop_err>>
       ELSE /\ ri' = ri + 1
            /\ UNCHANGED <<trades, alerts, pc, nap, loop_err>>
    /\ UNCHANGED <<program, bonkVars, apiVars, ptVars>>
    /\ UNCHANGED <<cat, saved, ranked, exported, line>>

\* run: the loop over ranked_tokens[:5] is over
TopDone ==
    /\ program = "trading_bot"
    /\ pc = "top"
    /\ ri >= TopSlice(ranked)
    /\ pc' = "sleep"
    /\ nap' = LoopSleep
    /\ UNCHANGED <<program, bonkVars, apiVars, ptVars>>
    /\ UNCHANGED <<cat, saved, trades, alerts, ranked, ri, loop_err, exported,
                   line>>

\* run: time.sleep ends and the next cycle starts
Sleep ==
    /\ program = "trading_bot"
    /\ pc = "sleep"
    /\ pc' = "cycle"
    /\ cat' = 0
    /\ saved' = 0
    /\ trades' = <<>>
    /\ alerts' = <<>>
    /\ ranked' = <<>>
    /\ ri' = 0
    /\ nap' = 0
    /\ loop_err' = FALSE
    /\ token_address' = ""
    /\ rug_report' = NoPayload
    /\ metrics' = NoPayload
    /\ hist' = NoPayload
    /\ price_trend' = 0
    /\ pt_out' = "not_run"
    /\ pt_err' = "none"
    /\ persisted' = FALSE
    /\ top_holders' = 0
    /\ trading_volume' = 0
    /\ dispatch_fail' = {}
    /\ line' = ""
    /\ UNCHANGED <<program, bonkVars, apiVars, exported>>

\* variant: the loop goes on after the export
Export_Resume ==
    /\ program = "trading_bot"
    /\ pc = "export"
    /\ exported' = TRUE
    /\ pc' = "rank"
    /\ UNCHANGED <<program, bonkVars, apiVars, ptVars>>
    /\ UNCHANGED <<cat, saved, trades, alerts, ranked, ri, nap, loop_err,
                   line>>

\* run: after the loop
Export ==
    /\ program = "trading_bot"
    /\ pc = "export"
    /\ exported' = TRUE
    /\ pc' = "stopped"
    /\ UNCHANGED <<program, bonkVars, apiVars, ptVars>>
    /\ UNCHANGED <<cat, saved, trades, alerts, ranked, ri, nap, loop_err,
                   line>>

NextBot ==
    \/ FetchCategory
    \/ \E p \in Responses(call) : ApiSuccess(p)
    \/ ApiFailure
    \/ GmgnReturned
    \/ \E typed \in InputLines : Input(typed)
    \/ RugReturned
    \/ MetricsReturned
    \/ \E to \in DispatchOutcomes, ao \in DispatchOutcomes :
          HistoryReturned(to, ao)
    \/ \E list \in RankedLists : Rank(list)
    \/ RankFails
    \/ \E to \in DispatchOutcomes, ao \in DispatchOutcomes : TopStep(to, ao)
    \/ TopDone
    \/ Sleep
    \/ Export

Next == NextBonk \/ NextBot

Spec == Init /\ [][Next]_vars

\* time.sleep(10) and time.sleep(60) return: the loop is not stuck in them
FairSpec == Spec /\ WF_vars(Sleep)

(* ------------------------------- claims -------------------------------- *)

LastVerdict == IF verdicts = <<>> THEN "none" ELSE verdicts[Len(verdicts)]
Buys == { i \in DOMAIN verdicts : verdicts[i] = "BUY" }
DirectTrades == { i \in DOMAIN trades : trades[i].ctx = "direct" }
DirectAlerts == { i \in DOMAIN alerts : alerts[i].ctx = "direct" }
RankedTraded(i) ==
    \E k \in DOMAIN trades : trades[k] = Trade("ranked", i, RankedAmount)
RankedAlerted(i) ==
    \E k \in DOMAIN alerts : alerts[k] = Alert("ranked", i)
\* process_token has returned and run has not yet gone on to the ranking
Evaluated == pc = "rank" /\ pt_out # "not_run"
\* a market every predicate of parse_coin_data lets through
Admissible(m, r) ==
    /\ m.price_ok
    /\ m.symbol \notin COIN_BLACKLIST
    /\ m.volume >= min_volume
    /\ r = "Good"
    /\ m.supply_ok
    /\ ~(m.supply > 0 /\ m.liquidity > BundleRatio * m.supply)

\* C1: an api_request call whose attempts all fail makes exactly
\* max_retries attempts, never more and never fewer, and then returns None.
C1_RetryBound ==
    /\ attempts <= max_retries
    /\ (pc = "api" => attempts < max_retries)
    /\ (pc = "ret" /\ failures = attempts =>
            attempts = max_retries /\ result = NonePayload)

C1_Witness == pc = "ret" /\ failures = max_retries

\* C2: after its retries are exhausted api_request returns None instead of
\* raising, and process_token takes the missing answer as no result: a
\* missing safety report ends the evaluation quietly, missing metrics give
\* trend 0, a missing history lets the evaluation finish; no exception is
\* caught on account of the failed lookup.
C2_FailureNotFatal ==
    /\ (pc = "ret" /\ failures = max_retries => result = NonePayload)
    /\ (Evaluated /\ rug_report = NonePayload =>
            pt_out = "no_report" /\ pt_err = "none" /\ DirectTrades = {})
    /\ (metrics = NonePayload =>
            price_trend = 0 /\ (pt_err = "none" \/ hist.kind = "list"))
    /\ (hist = NonePayload =>
            pt_err = "none" /\ pt_out \in {"traded", "skipped"})

C2_Witness ==
    Evaluated /\ metrics = NonePayload /\ hist = NonePayload
        /\ pt_out = "traded"

\* C3: a market whose total supply is 0 is never bought, whatever its
\* liquidity.
C3_FailClosed ==
    (program = "bonkbot" /\ LastVerdict # "none"
        /\ market.supply_ok /\ market.supply = 0) => LastVerdict # "BUY"

C5_ZeroFirstSample ==
    (Evaluated /\ metrics.kind = "ok"
        /\ Len(metrics.history) >= MinHistory /\ metrics.history[1] = 0) =>
        /\ pt_err = "none"
        /\ price_trend = 0
        /\ (StatusOf(rug_report) = "GOOD" /\ hist.kind # "list" =>
                persisted /\ DirectTrades # {})

\* C6: process_token and parse_coin_data dispatch a token only after its
\* safety report was fetched and said GOOD.
C6_DispatchImpliesGood ==
    /\ (LastVerdict = "BUY" => rug = "Good")
    /\ Len(msgs) = Cardinality(Buys)
    /\ (pt_out # "not_run" /\ (DirectTrades # {} \/ persisted) =>
            /\ rug_report.kind = "ok"
            /\ rug_report.status \in {"GOOD", "good"})
    /\ (pt_out = "not_run" /\ pc # "rank" => Cardinality(DirectTrades) <= 1)

C6_Witness ==
    /\ program = "bonkbot"
    /\ LastVerdict = "BUY"
    /\ msgs # <<>>
    /\ msgs[Len(msgs)].symbol = market.symbol

\* C7: a market whose symbol is in the coin blacklist is never bought,
\* whatever its other fields.
C7_BlacklistedSymbol ==
    /\ (LastVerdict # "none" /\ market.symbol \in COIN_BLACKLIST =>
            LastVerdict \in {"BLACKLIST", "ERROR"} /\ rug = "not_called")
    /\ \A i \in DOMAIN msgs : msgs[i].symbol \notin COIN_BLACKLIST

C7_Witness ==
    /\ LastVerdict = "BLACKLIST"
    /\ market.symbol = "SCAM"
    /\ market.volume >= min_volume
    /\ market.address \notin COIN_BLACKLIST
    /\ ~check_bundled_supply(market)

\* C8: a market whose contract address is in the blacklist is never
\* bought, also when its symbol is not in it.
C8_BlacklistedAddress ==
    (LastVerdict # "none" /\ market.address \in COIN_BLACKLIST) =>
        LastVerdict # "BUY"

\* C9 as stated: in the ranked pass an examined token is traded and
\* announced exactly when its probability is at or above 0.7.
C9_AtOrAboveThreshold ==
    \A i \in 1..ri :
        /\ RankedTraded(i) <=> ranked[i] >= Threshold
        /\ RankedAlerted(i) <=> ranked[i] >= Threshold

\* C9 amended: in the ranked pass an examined token is traded and announced
\* exactly when its probability is strictly above 0.7; a token at exactly
\* 0.7 is not dispatched.
C9_AboveThreshold ==
    \A i \in 1..ri :
        /\ RankedTraded(i) <=> ranked[i] > Threshold
        /\ RankedAlerted(i) <=> ranked[i] > Threshold

C9_Witness ==
    /\ pc = "top"
    /\ ri >= 2
    /\ ranked[1] > Threshold /\ RankedTraded(1)
    /\ ranked[ri] = Threshold /\ ~RankedTraded(ri)

\* C10: in parse_coin_data a market that raises or whose safety lookup
\* fails yields no buy and does not stop the batch: every market of the
\* batch gets handled, and a later admissible market is bought.
C10_FailureIsolation ==
    /\ Len(verdicts) = idx
    /\ idx <= n_pairs
    /\ (reply = "Manual trade triggered." => Len(verdicts) = n_pairs)
    /\ Len(msgs) = Cardinality(Buys)
    /\ (rug = "fail" => LastVerdict = "RUGCHECK")
    /\ (LastVerdict # "none" /\ Admissible(market, rug) =>
            /\ LastVerdict = "BUY"
            /\ msgs[Len(msgs)].symbol = market.symbol)

C10_Witness ==
    /\ reply = "Manual trade triggered."
    /\ Len(verdicts) = n_pairs
    /\ \E i \in DOMAIN verdicts :
          /\ verdicts[i] \in {"ERROR", "RUGCHECK"}
          /\ i + 1 \in DOMAIN verdicts
          /\ verdicts[i + 1] = "BUY"
    /\ Len(msgs) = 1

RankedTrades == { k \in DOMAIN trades : trades[k].ctx = "ranked" }

\* C12: the amount of every buy of parse_coin_data is the price clamped to
\* [MIN_BUY_AMOUNT, MAX_BUY_AMOUNT]: never below 0.025, never above 0.1,
\* the price itself inside the range and the nearer bound outside it.
C12_ClampedAmount ==
    /\ \A i \in DOMAIN msgs : msgs[i].amount >= 25 /\ msgs[i].amount <= 100
    /\ (LastVerdict = "BUY" =>
            LET a == msgs[Len(msgs)].amount IN
            /\ (market.price < 25 => a = 25)
            /\ (market.price > 100 => a = 100)
            /\ (market.price >= 25 /\ market.price <= 100 => a = market.price))

C12_Witness ==
    /\ LastVerdict = "BUY"
    /\ market.price > MAX_BUY_AMOUNT
    /\ msgs[Len(msgs)].amount = MAX_BUY_AMOUNT

\* C13: a trade made by process_token is always for 0.1 and a trade made by
\* the ranked pass of run always for half of it, 0.05; no other amount is
\* passed to the trade call.
C13_TwoAmounts ==
    \A k \in DOMAIN trades :
        /\ trades[k].ctx \in {"direct", "ranked"}
        /\ (trades[k].ctx = "direct" => trades[k].amount = 100)
        /\ (trades[k].ctx = "ranked" => 2 * trades[k].amount = 100)

C13_Witness ==
    /\ \E k \in DOMAIN trades : trades[k].ctx = "direct"
    /\ \E k \in DOMAIN trades : trades[k].ctx = "ranked"

\* C17: parse_coin_data tests blacklist, volume, safety report and supply in
\* this order and stops at the first test that fails: the safety request is
\* made only for a market that passed the blacklist and volume tests, and
\* the supply test runs only after the safety test passed.
C17_OrderedShortCircuit ==
    LastVerdict # "none" =>
        /\ (rug # "not_called" =>
                market.symbol \notin COIN_BLACKLIST
                /\ market.volume >= min_volume)
        /\ (LastVerdict \in {"BUNDLED", "BUY"} => rug = "Good")
        /\ (market.price_ok /\ market.symbol \in COIN_BLACKLIST =>
                LastVerdict = "BLACKLIST")
        /\ (market.price_ok /\ market.symbol \notin COIN_BLACKLIST
                /\ market.volume < min_volume =>
                LastVerdict = "MIN_VOLUME" /\ rug = "not_called")
        /\ (rug \notin {"not_called", "Good"} => LastVerdict = "RUGCHECK")

C17_Witness ==
    /\ LastVerdict = "MIN_VOLUME"
    /\ rug = "not_called"
    /\ market.symbol \notin COIN_BLACKLIST
    /\ check_bundled_supply(market)

\* C20: a ranking pass trades only entries among the first five of the
\* ranked list, each at most once: at most five ranked trades, none for an
\* entry at position six or later.
C20_TopFiveOnly ==
    /\ \A k \in RankedTrades : trades[k].pos >= 1 /\ trades[k].pos <= 5
    /\ \A k, l \in RankedTrades : trades[k].pos = trades[l].pos => k = l
    /\ Cardinality(RankedTrades) <= 5
    /\ ri <= 5

C20_Witness ==
    /\ pc = "sleep"
    /\ Len(ranked) >= 6
    /\ ranked[6] > Threshold
    /\ Cardinality(RankedTrades) = 5
    /\ ~RankedTraded(6)

\* C11: an evaluation of process_token that dispatches (status GOOD) emits
\* exactly one trade call and exactly one alert call, whether or not either
\* call failed; an evaluation that does not dispatch emits none.
C11_OneTradeOneAlert ==
    program = "trading_bot" /\ pt_out # "not_run" =>
        IF persisted
        THEN /\ StatusOf(rug_report) = "GOOD"
             /\ Cardinality(DirectTrades) = 1
             /\ Cardinality(DirectAlerts) = 1
        ELSE DirectTrades = {} /\ DirectAlerts = {}

C11_Witness ==
    /\ Evaluated
    /\ persisted
    /\ dispatch_fail = {"trade", "alert"}
    /\ Cardinality(DirectTrades) = 1
    /\ Cardinality(DirectAlerts) = 1

\* C14: a failure inside a cycle of run takes the loop to its except
\* clause, from which a new cycle eventually starts; the loop is left only
\* after the operator typed "exit".
C14_LoopSurvives ==
    /\ [](pc \in {"export", "stopped"} => Lower(line) = "exit")
    /\ [](loop_err => pc = "sleep" /\ nap = ErrorSleep)
    /\ (loop_err ~> (pc = "cycle" /\ ~loop_err))

C14_Witness ==
    /\ loop_err
    /\ pc = "sleep"
    /\ nap = ErrorSleep
    /\ pt_out = "error"

\* C15: when process_token has computed the trend, it is 0 for a history
\* of fewer than five samples (an empty or missing one too), and
\* (last - first) / first * 100 for five or more with a non-zero first.
C15_TrendDefault ==
    program = "trading_bot" /\ call = "history" /\ pt_out = "running" =>
        LET h == IF metrics.kind = "ok" THEN metrics.history ELSE <<>>
        IN  /\ (Len(h) < 5 => price_trend = 0)
            /\ (Len(h) >= 5 /\ h[1] # 0 =>
                    price_trend * h[1] = (h[Len(h)] - h[1]) * 100)

C15_Witness ==
    /\ call = "history"
    /\ pt_out = "running"
    /\ metrics.kind = "ok"
    /\ metrics.history = <<4, 4, 4, 5>>
    /\ price_trend = 0

\* C16: when the metrics request or the history request returned None, the
\* evaluation of a GOOD token still persists and trades it; with no
\* metrics, holder count, volume and trend are zero.
C16_BestEffort ==
    ( /\ program = "trading_bot"
      /\ Evaluated
      /\ rug_report.kind = "ok"
      /\ rug_report.score_ok
      /\ StatusOf(rug_report) = "GOOD"
      /\ \/ metrics = NonePayload /\ hist.kind \in {"None", "empty", "ok"}
         \/ hist = NonePayload ) =>
        /\ pt_out = "traded"
        /\ persisted
        /\ Cardinality(DirectTrades) = 1
        /\ (metrics = NonePayload =>
                top_holders = 0 /\ trading_volume = 0 /\ price_trend = 0)

C16_Witness ==
    /\ Evaluated
    /\ StatusOf(rug_report) = "GOOD"
    /\ metrics = NonePayload
    /\ hist = NonePayload
    /\ failures = max_retries
    /\ persisted
    /\ Cardinality(DirectTrades) = 1
    /\ top_holders = 0

\* C18: api_request sleeps retry_delay once between two consecutive
\* attempts and nowhere else: inside the loop every attempt so far failed
\* and was followed by one sleep; a call that returned after k attempts
\* slept k-1 times, had at most its last attempt succeed, and returned
\* without a success only after max_retries attempts.
C18_DelayBetweenAttempts ==
    program = "trading_bot" =>
        /\ waited = retry_delay * delays
        /\ (pc = "api" =>
                failures = attempts /\ delays = attempts
                    /\ attempts < max_retries)
        /\ (pc # "api" /\ attempts > 0 =>
                /\ attempts \in 1..max_retries
                /\ delays = attempts - 1
                /\ failures \in {attempts - 1, attempts}
                /\ (failures = attempts => attempts = max_retries))

C18_Witness ==
    /\ pc = "ret"
    /\ attempts = 2
    /\ failures = 1
    /\ delays = 1
    /\ waited = retry_delay
    /\ result.kind = "ok"

\* what a step may do once the loop has been left
AfterExit ==
    pc \in {"export", "stopped"} =>
        /\ pc = "export"
        /\ pc' = "stopped"
        /\ exported'
        /\ UNCHANGED <<apiVars, ptVars, trades, alerts, ranked, ri, cat, saved>>

\* C19: from the moment the operator typed "exit", no request, evaluation,
\* ranking, trade or alert is started: the only step left is the export,
\* after which nothing changes.
C19_GracefulExit == [][AfterExit]_vars

C19_Witness ==
    /\ pc = "stopped"
    /\ exported
    /\ line = "EXIT"

====
